---- MODULE Spec2Model ----
(***************************************************************************)
(* Trending computation and location-clustered cache of the news service.  *)
(*                                                                         *)
(* TrendingService (services package, revision with the RWMutex-guarded    *)
(* map and the event simulator), utils.GetLocationClusterKey and the       *)
(* /trending handler; beside them the package-level TrendingCache of the   *)
(* older revision, and the scorer, the configuration, the limit handling   *)
(* and the summary enrichment each on their own.                           *)
(*                                                                         *)
(* Units.  Coordinates are integers in milli-degrees.  The clock `now` is  *)
(* an integer number of 30-minute units, so the scorer's one-hour window   *)
(* is OneHour = 2 units.  Scores are fixed point: the recency and the geo  *)
(* factor are per-mille integers, an event score is their product times    *)
(* the interaction weight.                                                 *)
(***************************************************************************)
EXTENDS Integers, Sequences, FiniteSets, TLC

----------------------------------------------------------------------------
(* Bounds of the model and configuration values *)

\* Largest clock value the model explores.
MaxTime == 2
\* cfg.TrendingCacheTTL, in clock units (TRENDING_CACHE_TTL is configurable).
cacheTTL == 1
\* Largest number of ticker firings the simulator model explores.
MaxFires == 3
\* Largest number of rows of an events table handed to the scorer on its own.
MaxEvents == 2
\* Largest number of computeTrending calls made on one fixed store.
MaxCalls == 2
\* Largest number of characters of a limit parameter.
MaxLimitLen == 3
\* Largest number of stores into the cache the enrichment model explores.
MaxStores == 2
\* Largest number of simulateEvents calls the model of one tick after another
\* explores.
MaxTicks == 2
\* Largest number of event writes that fail in one behaviour of that model.
MaxWriteFailures == 1

\* cfg.LocationClusterDegrees default 0.5 degree, in milli-degrees.
clusterDegrees == 500
\* computeTrending's window "last hour", in clock units.
OneHour == 2
\* limit*3 in GetTrendingArticles.
InflateFactor == 3
\* rand.Intn(16) + 5 in simulateEvents.
MinEvents == 5
\* The values of rand.Intn(16) the model draws (of 0..15).
RandIntn16 == {0, 1}
\* db.GetDB().Limit(100) in simulateEvents.
SampleLimit == 100

\* Concurrent /trending requests (goroutines of the HTTP server).
Requests == {"r1", "r2"}
\* Query latitudes and longitudes (milli-degrees) and limits a request may carry.
Lats == {100, 200, 400}
Lons == {0}
Limits == {1, 2}

\* The article table: id -> row.  Never written by this subsystem.
ArticleIDs == {1, 2, 3, 4}
ArticleRow(id) ==
    CASE id = 1 -> [id |-> 1, pub |-> 10, lat |-> 100, lon |-> 0]
      [] id = 2 -> [id |-> 2, pub |-> 30, lat |-> 400, lon |-> 0]
      [] id = 3 -> [id |-> 3, pub |-> 20, lat |-> 200, lon |-> 0]
      [] OTHER  -> [id |-> 4, pub |-> 5, lat |-> 400, lon |-> 0]

EventTypeView == "view"
EventTypeClick == "click"
EventTypes == {EventTypeView, EventTypeClick}

\* The interactions the events table may hold when the server starts.
InsertedEvents == {[articleID |-> 1, eventType |-> EventTypeClick]}

\* db.Create(&event): the row of an interaction, located at its article
\* and stamped t.
EventRow(ev, t) ==
    [articleID |-> ev.articleID, eventType |-> ev.eventType,
     lat |-> ArticleRow(ev.articleID).lat, lon |-> ArticleRow(ev.articleID).lon,
     createdAt |-> t]

NoEntry == [none |-> TRUE]

----------------------------------------------------------------------------
(* Pure helpers *)

Abs(x) == IF x < 0 THEN -x ELSE x
Min(a, b) == IF a <= b THEN a ELSE b

\* Integer square root by bisection: the k in lo..hi with k*k <= n < (k+1)*(k+1).
RECURSIVE ISqrtBetween(_, _, _)
ISqrtBetween(n, lo, hi) ==
    IF lo >= hi THEN lo
    ELSE LET mid == (lo + hi + 1) \div 2
         IN  IF mid * mid <= n THEN ISqrtBetween(n, mid, hi)
             ELSE ISqrtBetween(n, lo, mid - 1)
ISqrt(n) == ISqrtBetween(n, 0, n)

\* math.Round(n/d) for d > 0: nearest integer, halves away from zero.  The
\* result is a float64, so a negative quotient that rounds to zero is -0:
\* the sign is kept beside the magnitude.
RoundDiv(n, d) ==
    [neg |-> n < 0, mag |-> (2 * Abs(n) + d) \div (2 * d)]

\* fmt.Sprintf("%.2f", v) of the float whose sign bit is neg and whose
\* magnitude is mdeg milli-units: two decimals, nearest, and "-" whenever the
\* sign bit is set ("-0.00" for negative zero).
FormatFixed2(neg, mdeg) ==
    <<IF neg THEN "-" ELSE "", (mdeg + 5) \div 10>>

\* fmt.Sprintf("%.2f", math.NaN())
FormatNaN == <<"NaN", 0>>

\* utils.GetLocationClusterKey.  No test of clusterDegrees precedes the
\* division.  For cd = 0 the quotient is an infinity or NaN and its product
\* with 0 is NaN on both axes.  For cd < 0 quotient and factor both change
\* sign, so the product is the one |cd| gives, sign bit included.
GetLocationClusterKey(lat, lon, cd) ==
    IF cd = 0 THEN <<FormatNaN, FormatNaN>>
    ELSE LET rl == RoundDiv(lat, Abs(cd))
             ro == RoundDiv(lon, Abs(cd))
         IN  <<FormatFixed2(rl.neg, rl.mag * Abs(cd)),
               FormatFixed2(ro.neg, ro.mag * Abs(cd))>>

\* utils.Haversine, in whole kilometres.  The model's coordinates lie within
\* a degree of the equator, where the great-circle distance is the planar
\* distance at 111.195 km per degree to well under a kilometre.
Haversine(lat1, lon1, lat2, lon2) ==
    LET dlat == lat2 - lat1
        dlon == lon2 - lon1
    IN  (111195 * ISqrt(dlat * dlat + dlon * dlon)) \div 1000000

\* math.Exp(-age/12.0) for an age of a clock units (a/2 hours), per mille.
RecencyTable == <<1000, 959, 920, 882, 846, 812, 779, 747>>
RecencyFactor(a) ==
    IF a < 0 THEN 1000
    ELSE IF a + 1 > Len(RecencyTable) THEN 717
    ELSE RecencyTable[a + 1]

\* 1.0 / (1.0 + distance/100.0), per mille.
GeoFactor(distance) == 100000 \div (100 + distance)

\* The weight of the older scorer: a click counts three views.
InteractionWeightThree(eventType) == IF eventType = EventTypeClick THEN 3 ELSE 1

\* weight: clicks count more.
InteractionWeight(eventType) == IF eventType = EventTypeClick THEN 2 ELSE 1

----------------------------------------------------------------------------
(* computeTrending *)

\* A read of the events table without its WHERE clause.
FindEventsAll(table, oneHourAgo) == table

\* db.Where("created_at > ?", oneHourAgo).Find(&events): rows in insertion
\* (primary key) order.
FindEventsSince(table, oneHourAgo) ==
    SelectSeq(table, LAMBDA e : e.createdAt > oneHourAgo)

\* Keys of articleEventCounts.
EventArticleIDs(evs) == {evs[i].articleID : i \in 1..Len(evs)}

\* articleEventCounts[id]: the events of one article, in read order.
EventsOf(evs, id) == SelectSeq(evs, LAMBDA e : e.articleID = id)

\* Ids of a set of rows as a sequence in ascending primary-key order.
RECURSIVE AscendingIDs(_)
AscendingIDs(ids) ==
    IF ids = {} THEN <<>>
    ELSE LET m == CHOOSE x \in ids : \A y \in ids : x <= y
         IN  <<m>> \o AscendingIDs(ids \ {m})

\* for id := range articleEventCounts { articleIDs = append(articleIDs, id) }:
\* the orders in which ranging over the map may yield its keys.
RangeKeyOrders(ids) ==
    {s \in [1..Cardinality(ids) -> ids] :
        \A i, j \in 1..Cardinality(ids) : i # j => s[i] # s[j]}

\* A query that returns the rows in the order of its argument list.
FindArticlesInArgumentOrder(articleIDs) ==
    SelectSeq(articleIDs, LAMBDA id : id \in ArticleIDs)

\* db.Where("id IN ?", articleIDs).Find(&articles): the rows that exist, in
\* the order SQLite walks the primary-key index, whatever the order of the
\* argument list.
FindArticlesByIDs(articleIDs) ==
    AscendingIDs({articleIDs[i] : i \in 1..Len(articleIDs)} \cap ArticleIDs)

\* db.Order("publication_date DESC").Limit(limit).Find(&articles)
RECURSIVE ByPublicationDesc(_)
ByPublicationDesc(ids) ==
    IF ids = {} THEN <<>>
    ELSE LET m == CHOOSE x \in ids :
                    \A y \in ids : ArticleRow(x).pub >= ArticleRow(y).pub
         IN  <<m>> \o ByPublicationDesc(ids \ {m})
\* The same query without its ORDER BY.
FindRecentArticlesUnordered(limit) ==
    LET all == AscendingIDs(ArticleIDs)
    IN  SubSeq(all, 1, Min(limit, Len(all)))

FindRecentArticles(limit) ==
    LET all == ByPublicationDesc(ArticleIDs)
    IN  SubSeq(all, 1, Min(limit, Len(all)))

\* weight * recencyFactor * geoFactor of one event, scored at time t for
\* the query point (lat, lon).
EventScore(e, t, lat, lon) ==
    InteractionWeight(e.eventType)
      * RecencyFactor(t - e.createdAt)
      * GeoFactor(Haversine(lat, lon, e.lat, e.lon))

\* interactionScore of one article: the inner loop over its events.
RECURSIVE InteractionScore(_, _, _, _)
InteractionScore(evs, t, lat, lon) ==
    IF evs = <<>> THEN 0
    ELSE EventScore(Head(evs), t, lat, lon)
           + InteractionScore(Tail(evs), t, lat, lon)

\* `article: &article` inside `for _, article := range articles`.  With a
\* per-iteration loop variable (go >= 1.22 in go.mod) each score points at
\* its own article; with the single shared loop variable of older language
\* versions every pointer is the same variable, which holds the last row
\* once the loop has ended.
ScoredArticle(rows, i, perIteration) ==
    IF perIteration THEN rows[i] ELSE rows[Len(rows)]

\* scores: one articleScore per fetched row, in row order.
ArticleScores(rows, evs, t, lat, lon, perIteration) ==
    [i \in 1..Len(rows) |->
        [article |-> ScoredArticle(rows, i, perIteration),
         score   |-> InteractionScore(EventsOf(evs, rows[i]), t, lat, lon)]]

\* The interactionScore computed in each iteration, beside the id of the
\* iteration's row; nothing when no event is in the window.
RowScores(evs, t, lat, lon, articleIDs) ==
    IF EventArticleIDs(evs) = {} THEN <<>>
    ELSE LET rows == FindArticlesByIDs(articleIDs)
         IN  [i \in 1..Len(rows) |->
                [id |-> rows[i],
                 score |-> InteractionScore(EventsOf(evs, rows[i]), t, lat, lon)]]

Swap(s, i, j) == [s EXCEPT ![i] = s[j], ![j] = s[i]]

\* if scores[j].score > scores[i].score { swap }
SwapIfHigher(s, i, j) == IF s[j].score > s[i].score THEN Swap(s, i, j) ELSE s

\* for j := i + 1; j < len(scores); j++
RECURSIVE SortInner(_, _, _)
SortInner(s, i, j) ==
    IF j > Len(s) THEN s ELSE SortInner(SwapIfHigher(s, i, j), i, j + 1)

\* for i := 0; i < len(scores); i++
RECURSIVE SortOuter(_, _)
SortOuter(s, i) ==
    IF i > Len(s) THEN s ELSE SortOuter(SortInner(s, i, i + 1), i + 1)

SortByScore(s) == SortOuter(s, 1)

\* for i := 0; i < len(scores) && i < limit; i++ { result = append(...) }
TopArticles(s, limit) == [i \in 1..Min(Len(s), limit) |-> s[i].article]

\* The scored path of computeTrending, after both reads succeeded.
ScoredResult(evs, t, lat, lon, limit, perIteration, articleIDs) ==
    LET rows == FindArticlesByIDs(articleIDs)
    IN  TopArticles(SortByScore(ArticleScores(rows, evs, t, lat, lon, perIteration)),
                    limit)

\* computeTrending's list once its reads succeeded: the fallback to recent
\* articles when no event is in the window, the scored list otherwise.
computeTrending(evs, t, lat, lon, limit, perIteration, articleIDs) ==
    IF EventArticleIDs(evs) = {} THEN FindRecentArticles(limit)
    ELSE ScoredResult(evs, t, lat, lon, limit, perIteration, articleIDs)

\* A truncation that keeps one article too few.
TruncateOneShort(list, limit) ==
    SubSeq(list, 1, Min(limit, Len(list)) - 1)

\* A return of the whole list, whatever the limit.
TruncateNever(list, limit) == list

\* `if len(list) <= limit { return list }; return list[:limit]`
Truncate(list, limit) ==
    IF Len(list) <= limit THEN list ELSE SubSeq(list, 1, limit)

----------------------------------------------------------------------------
(* State *)

VARIABLES
    now,            \* time.Now(), in clock units
    events,         \* the events table, rows in insertion order
    cache,          \* ts.cache: cluster key -> *TrendingCache or NoEntry
    rwReaders,      \* ts.cacheMutex: requests holding the read lock
    rwWriter,       \* ts.cacheMutex: holder of the write lock, or "none"
    pc,             \* position of each request in GetTrending
    arg,            \* lat, lon, limit of each request
    cached,         \* local `cached, exists` of each request
    articles,       \* local `articles` returned by computeTrending
    resp,           \* what the handler answered
    hist,           \* per request: what the current call has done so far
    lastSet,        \* per key: the list and time of the latest store since
                    \* the last ClearCache, or NoEntry
    mainPc,         \* position of main: "init", "serving", "cancelled", "exited"
    ctxDone,        \* ctx.Done() is closed
    simulationRunning,  \* ts.simulationRunning
    simPc,          \* position of the simulator goroutine
    tickerC,        \* ticker.C holds a tick (the channel buffers one)
    fires,          \* tick periods that have elapsed since the ticker was made
    toWrite,        \* iterations left in simulateEvents' loop
    simWrites,      \* rows the simulator has created
    ticksAfterCancel,   \* simulateEvents calls begun after ctx was cancelled
    tcCache,        \* TrendingCache.cache: key -> *CacheEntry or NoEntry; an
                    \* entry holds its list and the age of its Timestamp
    tcPhase,        \* time since the cache's ticker last fired
    tcTickerC,      \* TrendingCache.ticker.C holds a tick
    tcGot,          \* what the latest Get returned
    tcRemoved,      \* the keys the latest cleanup scan deleted
    tcProc,         \* the process that owns the TrendingCache: "running",
                    \* "signalled" (SIGINT or SIGTERM delivered) or "exited"
    scEvents,       \* scorer on its own: the events table
    scNow,          \* scorer on its own: time.Now()
    scQuery,        \* scorer on its own: lat, lon, limit of the calls
    scBuild,        \* scorer on its own: the build has per-iteration loop variables
    scCalls,        \* computeTrending calls made so far
    scOrder,        \* the order in which the latest call ranged over its map
    scResult,       \* the list the latest call returned
    scScores,       \* the interactionScore the latest call computed per row
    scPrev,         \* order and list of the call before the latest, if any
    scChanged,      \* the events table was written since the latest call
    ckConfig,       \* configuration on its own: cfg.LocationClusterDegrees and
                    \* cfg.TrendingCacheTTL as loaded
    ckPoints,       \* two coordinates handed to GetLocationClusterKey
    ckKeys,         \* the keys it returned for them, or <<>> before the calls
    ckService,      \* the *TrendingService NewTrendingService returned, if any
    ckServed,       \* that service has answered a request
    lmParam,        \* limit handling on its own: c.Query("limit"), a string
                    \* as the sequence of its characters ("" when missing)
    lmFound,        \* number of articles the endpoint's query produced
    lmLimit,        \* what getLimit returned, or -1 before the call
    lmCount,        \* meta.count of the response, or -1 before it is sent
    enDb,           \* enrichment on its own: llm_summary column, per article id
    enHeap,         \* LLMSummary field of every models.Article object that
                    \* computeTrending has allocated; an object is <<store, id>>
    enStores,       \* number of stores made so far
    enEntry,        \* ts.cache[key]: an entry with its list of objects, or NoEntry
    enStored,       \* the summaries of that list when it was stored
    enList,         \* the list the handler holds, handed to enrichWithSummaries
    enPos,          \* index of enrichWithSummaries' loop in it; 0 outside the loop
    stMutex,        \* starts on their own: holder of ts.simulationMutex, or "none"
    stRunning,      \* ts.simulationRunning
    stPc,           \* position of each StartEventSimulation call
    stCtxDone,      \* the calls whose context has been cancelled
    stLoops,        \* per call: the state of the goroutine it started, "none"
                    \* when it started none, else "looping" or "returned"
    tkArticles,     \* ticks on their own: number of rows of the articles table
    tkCtxDone,      \* ctx.Done() of the simulator loop is closed
    tkPc,           \* position of the loop: "select", "find", "loop", "returned"
    tkSample,       \* simulateEvents' local `articles`, as the set of their ids
    tkNum,          \* simulateEvents' local numEvents
    tkI,            \* simulateEvents' loop index i
    tkRows,         \* rows of the events table
    tkLast,         \* the event of the latest Create with its outcome, or NoEvent
    tkFailures,     \* Create calls that failed so far
    tkTicks,        \* simulateEvents calls that have returned
    tkHist          \* the current call had a failed Create; number of
                    \* returned calls that had one; number that sampled nothing

svcVars == <<now, events, cache, rwReaders, rwWriter, pc, arg,
             cached, articles, resp, hist, lastSet>>
simVars == <<mainPc, ctxDone, simulationRunning, simPc, tickerC, fires,
             toWrite, simWrites, ticksAfterCancel>>
tcVars == <<tcCache, tcPhase, tcTickerC, tcGot, tcRemoved, tcProc>>
scVars == <<scEvents, scNow, scQuery, scBuild, scCalls, scOrder, scResult,
            scScores, scPrev, scChanged>>
ckVars == <<ckConfig, ckPoints, ckKeys, ckService, ckServed>>
lmVars == <<lmParam, lmFound, lmLimit, lmCount>>
enVars == <<enDb, enHeap, enStores, enEntry, enStored, enList, enPos>>
stVars == <<stMutex, stRunning, stPc, stCtxDone, stLoops>>
tkVars == <<tkArticles, tkCtxDone, tkPc, tkSample, tkNum, tkI, tkRows, tkLast,
            tkFailures, tkTicks, tkHist>>
vars == <<svcVars, simVars, tcVars, scVars, ckVars, lmVars, enVars, stVars,
          tkVars>>
\* What the steps of one component leave alone.
notSvcVars == <<simVars, tcVars, scVars, ckVars, lmVars, enVars, stVars, tkVars>>
notSimVars == <<svcVars, tcVars, scVars, ckVars, lmVars, enVars, stVars, tkVars>>
notTcVars == <<svcVars, simVars, scVars, ckVars, lmVars, enVars, stVars, tkVars>>
notScVars == <<svcVars, simVars, tcVars, ckVars, lmVars, enVars, stVars, tkVars>>
notCkVars == <<svcVars, simVars, tcVars, scVars, lmVars, enVars, stVars, tkVars>>
notLmVars == <<svcVars, simVars, tcVars, scVars, ckVars, enVars, stVars, tkVars>>
notEnVars == <<svcVars, simVars, tcVars, scVars, ckVars, lmVars, stVars, tkVars>>
notStVars == <<svcVars, simVars, tcVars, scVars, ckVars, lmVars, enVars, tkVars>>
notTkVars == <<svcVars, simVars, tcVars, scVars, ckVars, lmVars, enVars, stVars>>

Keys == {GetLocationClusterKey(lat, lon, clusterDegrees) : lat \in Lats, lon \in Lons}

NoArg == [lat |-> 0, lon |-> 0, limit |-> 0]
NoResp == [status |-> 0, articles |-> <<>>, query |-> <<>>]
\* path: "hit", or on a miss "absent" (no entry) or "stale" (an entry that
\* failed the freshness test), once the test has run; wrote: the call
\* changed the cache; storeFailed: one of the call's store reads failed.
NoHist == [path |-> "", wrote |-> FALSE, storeFailed |-> FALSE]

\* A Get that has not happened.
NoGot == [found |-> FALSE, articles |-> <<>>, key |-> <<>>]

\* clusterKey := utils.GetLocationClusterKey(lat, lon, ts.clusterDegrees)
KeyOf(r) == GetLocationClusterKey(arg[r].lat, arg[r].lon, clusterDegrees)

\* A computeTrending call that has not happened.
NoCall == [none |-> TRUE]

\* NewTrendingService, and a server that has not served a request yet.
InitService ==
    /\ now = 0
    /\ events \in {<<>>} \cup {<<EventRow(ev, 0)>> : ev \in InsertedEvents}
    /\ cache = [k \in Keys |-> NoEntry]
    /\ rwReaders = {}
    /\ rwWriter = "none"
    /\ pc = [r \in Requests |-> "idle"]
    /\ arg = [r \in Requests |-> NoArg]
    /\ cached = [r \in Requests |-> NoEntry]
    /\ articles = [r \in Requests |-> <<>>]
    /\ resp = [r \in Requests |-> NoResp]
    /\ hist = [r \in Requests |-> NoHist]
    /\ lastSet = [k \in Keys |-> NoEntry]

\* main before StartEventSimulation.
InitSimulator ==
    /\ mainPc = "init"
    /\ ctxDone = FALSE
    /\ simulationRunning = FALSE
    /\ simPc = "none"
    /\ tickerC = FALSE
    /\ fires = 0
    /\ toWrite = 0
    /\ simWrites = 0
    /\ ticksAfterCancel = 0

\* InitTrendingCache.
InitCache ==
    /\ tcCache = [k \in Keys |-> NoEntry]
    /\ tcPhase = 0
    /\ tcTickerC = FALSE
    /\ tcGot = NoGot
    /\ tcRemoved = {}
    /\ tcProc = "running"

\* No call of the scorer on its own.
NoScorerCalls ==
    /\ scCalls = 0
    /\ scOrder = <<>>
    /\ scResult = <<>>
    /\ scScores = <<>>
    /\ scPrev = NoCall
    /\ scChanged = FALSE

InitScorerIdle ==
    /\ scEvents = <<>>
    /\ scNow = 0
    /\ scQuery = NoArg
    /\ scBuild = TRUE
    /\ NoScorerCalls

\* A service that was not constructed.
NoService == [none |-> TRUE]

\* Nothing constructed or keyed from the configuration yet.
NothingConfigured ==
    /\ ckKeys = <<>>
    /\ ckService = NoService
    /\ ckServed = FALSE

\* config.Load with no environment override.
InitConfigDefault ==
    /\ ckConfig = [clusterDegrees |-> clusterDegrees, ttl |-> cacheTTL]
    /\ ckPoints = <<[lat |-> 0, lon |-> 0], [lat |-> 0, lon |-> 0]>>
    /\ NothingConfigured

\* No getLimit call and no response yet.
NoLimitYet ==
    /\ lmLimit = -1
    /\ lmCount = -1

InitLimitIdle ==
    /\ lmParam = <<>>
    /\ lmFound = 0
    /\ NoLimitYet

\* Articles of the enrichment model, and the values of an LLMSummary.
EnArticles == {1, 2}
Summaries == {"", "summary"}

\* An empty cache, no request in its handler, no object allocated.
InitEnrich ==
    /\ enDb \in [EnArticles -> Summaries]
    /\ enHeap = <<>>
    /\ enStores = 0
    /\ enEntry = NoEntry
    /\ enStored = <<>>
    /\ enList = <<>>
    /\ enPos = 0

InitEnrichIdle == InitEnrich /\ enDb = [a \in EnArticles |-> ""]

\* Callers of StartEventSimulation, each with a context of its own.
Starters == {"s1", "s2", "s3"}

\* A service on which StartEventSimulation has not been called.
InitStarts ==
    /\ stMutex = "none"
    /\ stRunning = FALSE
    /\ stPc = [c \in Starters |-> "idle"]
    /\ stCtxDone = {}
    /\ stLoops = [c \in Starters |-> "none"]

\* simulateEvents has attempted no event.
NoEvent == [none |-> TRUE]

\* A simulator loop in its select that has run no tick, the events table
\* empty.
InitTick ==
    /\ tkCtxDone = FALSE
    /\ tkPc = "select"
    /\ tkSample = {}
    /\ tkNum = 0
    /\ tkI = 0
    /\ tkRows = 0
    /\ tkLast = NoEvent
    /\ tkFailures = 0
    /\ tkTicks = 0
    /\ tkHist = [failed |-> FALSE, failedTicks |-> 0, emptyTicks |-> 0]

InitTickIdle == InitTick /\ tkArticles = 0

Init ==
    /\ InitService /\ InitSimulator /\ InitCache
    /\ InitScorerIdle /\ InitConfigDefault /\ InitLimitIdle /\ InitEnrichIdle
    /\ InitStarts
    /\ InitTickIdle

----------------------------------------------------------------------------
(* The /trending handler and TrendingService.GetTrendingArticles *)

\* A service that passes the requested limit on as it is.
ScorerLimitPlain(limit) == limit

\* computeTrending(lat, lon, limit*3): the limit handed to the scorer.
ScorerLimit(limit) == limit * InflateFactor

\* sync.RWMutex: RLock is granted while no writer holds the lock, Lock while
\* nobody holds it.
CanRLock == rwWriter = "none"
CanLock == rwWriter = "none" /\ rwReaders = {}

\* A freshness test that forgets the expiry.
IsFreshNoExpiry(entry, t) == entry # NoEntry

\* `exists && time.Now().Before(cached.expiresAt)`
IsFresh(entry, t) == entry # NoEntry /\ t < entry.expiresAt

\* An entry stamped without the TTL.
NewEntryNoTTL(list, t) == [articles |-> list, expiresAt |-> t, setAt |-> t]

\* &TrendingCache{articles: articles, expiresAt: time.Now().Add(ts.cacheTTL)}
\* setAt records the time of the store that wrote the articles field.
NewEntry(list, t) ==
    [articles |-> list, expiresAt |-> t + cacheTTL, setAt |-> t]

\* A store that files the entry under another key.
StoreEntryWrongKey(c, k, entry) ==
    IF \E o \in DOMAIN c : o # k
    THEN [c EXCEPT ![CHOOSE o \in DOMAIN c : o # k] = entry]
    ELSE c

\* A store that overwrites the list of an existing entry and leaves its
\* expiry.
StoreEntryInPlace(c, k, entry) ==
    IF c[k] = NoEntry THEN [c EXCEPT ![k] = entry]
    ELSE [c EXCEPT ![k].articles = entry.articles, ![k].setAt = entry.setAt]

\* ts.cache[clusterKey] = entry
StoreEntry(c, k, entry) == [c EXCEPT ![k] = entry]

\* A clear that drops only the entries past their expiry.
EmptyCacheExpiredOnly(c) ==
    [k \in DOMAIN c |-> IF IsFresh(c[k], now) THEN c[k] ELSE NoEntry]

\* ts.cache = make(map[string]*TrendingCache)
EmptyCache(c) == [k \in DOMAIN c |-> NoEntry]

\* A call that goes on to the store whatever computeTrending returned.
NextAfterComputeAlways(err) == "store"

\* `if err != nil { return nil, err }` after computeTrending: where the call
\* goes next.
NextAfterCompute(err) == IF err THEN "done" ELSE "store"

\* A handler that answers 200 whatever the service returned.
HandlerStatusAlwaysOK(err) == 200

\* GetTrending's `if err != nil { c.JSON(500, ...); return }`, else
\* sendResponse's c.JSON(http.StatusOK, ...).
HandlerStatus(err) == IF err THEN 500 ELSE 200

\* The handler's answer for a service result (list, err): the error body, or
\* sendResponse's articles with the query echoed in Meta.Query.
Reply(err, list, query) ==
    [status |-> HandlerStatus(err),
     articles |-> IF err THEN <<>> ELSE list,
     query |-> IF err THEN <<>> ELSE query]

\* query := fmt.Sprintf("lat=%.4f, lon=%.4f", lat, lon)
QueryOf(r) == <<arg[r].lat, arg[r].lon>>

\* GetTrending up to the service call: lat and lon must be present and
\* parse, otherwise 400; getLimit yields the limit.
Begin(r) ==
    /\ pc[r] = "idle"
    /\ \/ \E lat \in Lats, lon \in Lons, limit \in Limits :
            /\ pc' = [pc EXCEPT ![r] = "read"]
            /\ arg' = [arg EXCEPT ![r] = [lat |-> lat, lon |-> lon, limit |-> limit]]
            /\ resp' = resp
       \/ /\ pc' = [pc EXCEPT ![r] = "done"]
          /\ arg' = arg
          /\ resp' = [resp EXCEPT ![r] = [status |-> 400, articles |-> <<>>, query |-> <<>>]]
    /\ UNCHANGED <<now, events, cache, rwReaders, rwWriter,
                   cached, articles, hist, lastSet>>
    /\ UNCHANGED notSvcVars

\* ts.cacheMutex.RLock(); cached, exists := ts.cache[clusterKey]
ReadCache(r) ==
    /\ pc[r] = "read"
    /\ CanRLock
    /\ rwReaders' = rwReaders \cup {r}
    /\ cached' = [cached EXCEPT ![r] = cache[KeyOf(r)]]
    /\ pc' = [pc EXCEPT ![r] = "check"]
    /\ UNCHANGED <<now, events, cache, rwWriter, arg, articles, resp, hist, lastSet>>
    /\ UNCHANGED notSvcVars

\* A call that returns gives up its frame; one that goes on keeps its
\* arguments.
Goto(r, next) ==
    /\ pc' = [pc EXCEPT ![r] = next]
    /\ arg' = IF next = "done" THEN [arg EXCEPT ![r] = NoArg] ELSE arg

\* ts.cacheMutex.RUnlock(), then the freshness test: a hit returns up to
\* limit cached articles and the handler answers 200; a miss enters
\* computeTrending(lat, lon, limit*3).
CheckCache(r) ==
    /\ pc[r] = "check"
    /\ rwReaders' = rwReaders \ {r}
    /\ IF IsFresh(cached[r], now)
       THEN /\ Goto(r, "done")
            /\ resp' = [resp EXCEPT ![r] =
                          Reply(FALSE, Truncate(cached[r].articles, arg[r].limit),
                                QueryOf(r))]
            /\ hist' = [hist EXCEPT ![r].path = "hit"]
       ELSE /\ Goto(r, "compute")
            /\ resp' = resp
            /\ hist' = [hist EXCEPT ![r].path =
                          IF cached[r] = NoEntry THEN "absent" ELSE "stale"]
    /\ cached' = [cached EXCEPT ![r] = NoEntry]
    /\ UNCHANGED <<now, events, cache, rwWriter, articles, lastSet>>
    /\ UNCHANGED notSvcVars

\* The store reads of one computeTrending call: the event query, then the
\* recent-articles query (no event in the window) or the lookup by ids.
\* failed names the read that fails, if any.
StoreReads == {"none", "events", "articles"}

\* computeTrending(lat, lon, limit*3) and the error test that follows it.
\* The reads and the scoring happen at one reading of the clock.  A failed
\* read makes computeTrending return the error.
ComputeTrending(r) ==
    /\ pc[r] = "compute"
    /\ \E failed \in StoreReads, perIteration \in BOOLEAN,
          articleIDs \in RangeKeyOrders(EventArticleIDs(
                                          FindEventsSince(events, now - OneHour))) :
         LET err == failed # "none"
             list == IF err THEN <<>>
                     ELSE computeTrending(FindEventsSince(events, now - OneHour),
                                          now, arg[r].lat, arg[r].lon,
                                          ScorerLimit(arg[r].limit), perIteration,
                                          articleIDs)
         IN  /\ articles' = [articles EXCEPT ![r] = list]
             /\ Goto(r, NextAfterCompute(err))
             /\ resp' = IF err THEN [resp EXCEPT ![r] = Reply(TRUE, <<>>, QueryOf(r))] ELSE resp
             /\ hist' = [hist EXCEPT ![r].storeFailed = err, ![r].path = "miss"]
    /\ UNCHANGED <<now, events, cache, rwReaders, rwWriter, cached, lastSet>>
    /\ UNCHANGED notSvcVars

\* ts.cacheMutex.Lock(); ts.cache[clusterKey] = &TrendingCache{...}
Store(r) ==
    /\ pc[r] = "store"
    /\ CanLock
    /\ rwWriter' = r
    /\ cache' = StoreEntry(cache, KeyOf(r), NewEntry(articles[r], now))
    /\ hist' = [hist EXCEPT ![r].wrote = TRUE]
    /\ lastSet' = [lastSet EXCEPT ![KeyOf(r)] = [articles |-> articles[r], at |-> now]]
    /\ pc' = [pc EXCEPT ![r] = "unlock"]
    /\ UNCHANGED <<now, events, rwReaders, arg, cached, articles, resp>>
    /\ UNCHANGED notSvcVars

\* ts.cacheMutex.Unlock(); return up to limit of articles; the handler
\* answers 200.
Unlock(r) ==
    /\ pc[r] = "unlock"
    /\ rwWriter' = "none"
    /\ Goto(r, "done")
    /\ resp' = [resp EXCEPT ![r] =
                  Reply(FALSE, Truncate(articles[r], arg[r].limit), QueryOf(r))]
    /\ articles' = [articles EXCEPT ![r] = <<>>]
    /\ UNCHANGED <<now, events, cache, rwReaders, cached, hist, lastSet>>
    /\ UNCHANGED notSvcVars

\* The request is over; its goroutine serves the next one.
Finish(r) ==
    /\ pc[r] = "done"
    /\ pc' = [pc EXCEPT ![r] = "idle"]
    /\ resp' = [resp EXCEPT ![r] = NoResp]
    /\ hist' = [hist EXCEPT ![r] = NoHist]
    /\ UNCHANGED <<now, events, cache, rwReaders, rwWriter, arg, cached, articles, lastSet>>
    /\ UNCHANGED notSvcVars

\* ClearCache: Lock(); defer Unlock(); ts.cache = make(map[string]*TrendingCache)
ClearCache ==
    /\ CanLock
    /\ cache' = EmptyCache(cache)
    /\ lastSet' = [k \in Keys |-> NoEntry]
    /\ UNCHANGED <<now, events, rwReaders, rwWriter, pc, arg, cached, articles, resp, hist>>
    /\ UNCHANGED notSvcVars

\* The wall clock advances.
Tick ==
    /\ now < MaxTime
    /\ now' = now + 1
    /\ UNCHANGED <<events, cache, rwReaders, rwWriter, pc, arg,
                   cached, articles, resp, hist, lastSet>>
    /\ UNCHANGED notSvcVars

\* The steps of the trending service under requests; the simulator is
\* specified apart, in SpecSim.
Next ==
    \/ \E r \in Requests : Begin(r)
    \/ \E r \in Requests : ReadCache(r)
    \/ \E r \in Requests : CheckCache(r)
    \/ \E r \in Requests : ComputeTrending(r)
    \/ \E r \in Requests : Store(r)
    \/ \E r \in Requests : Unlock(r)
    \/ \E r \in Requests : Finish(r)
    \/ ClearCache
    \/ Tick

Spec == Init /\ [][Next]_vars

----------------------------------------------------------------------------
(* The event simulator: main, StartEventSimulation and simulateEvents *)

\* The simulator goroutine is gone: it returned, or the process exited.
Stopped == simPc \in {"returned", "killed"}

\* StartEventSimulation(ctx), called by main: a second start is refused;
\* the first marks the simulation running and starts the goroutine, which
\* makes its ticker and enters the select.
StartEventSimulation ==
    /\ mainPc = "init"
    /\ mainPc' = "serving"
    /\ IF simulationRunning
       THEN UNCHANGED <<simulationRunning, simPc>>
       ELSE /\ simulationRunning' = TRUE
            /\ simPc' = "select"
    /\ UNCHANGED <<ctxDone, tickerC, fires, toWrite, simWrites,
                   ticksAfterCancel>>
    /\ UNCHANGED notSimVars

\* `<-quit`, then cancel(): the cancellation signal fires.
Cancel ==
    /\ mainPc = "serving"
    /\ mainPc' = "cancelled"
    /\ ctxDone' = TRUE
    /\ UNCHANGED <<simulationRunning, simPc, tickerC, fires, toWrite, simWrites,
                   ticksAfterCancel>>
    /\ UNCHANGED notSimVars

\* main returns after cancel(): the process exits and takes the simulator
\* goroutine with it, wherever it is.
Exit ==
    /\ mainPc = "cancelled"
    /\ mainPc' = "exited"
    /\ simPc' = IF simPc = "returned" THEN simPc ELSE "killed"
    /\ toWrite' = 0
    /\ UNCHANGED <<ctxDone, simulationRunning, tickerC, fires, simWrites,
                   ticksAfterCancel>>
    /\ UNCHANGED notSimVars

\* time.NewTicker(5 * time.Second): a tick period ends.  The tick goes into
\* ticker.C, or is dropped when the channel still holds one.
TickerFire ==
    /\ simPc \in {"select", "tick", "write"}
    /\ fires < MaxFires
    /\ fires' = fires + 1
    /\ tickerC' = TRUE
    /\ UNCHANGED <<mainPc, ctxDone, simulationRunning, simPc, toWrite, simWrites,
                   ticksAfterCancel>>
    /\ UNCHANGED notSimVars

\* select, case <-ctx.Done(): return (and the deferred ticker.Stop()).
SelectDone ==
    /\ simPc = "select"
    /\ ctxDone
    /\ simPc' = "returned"
    /\ UNCHANGED <<mainPc, ctxDone, simulationRunning, tickerC, fires, toWrite,
                   simWrites, ticksAfterCancel>>
    /\ UNCHANGED notSimVars

\* select, case <-ticker.C: ts.simulateEvents() begins.  When both cases
\* are ready the select takes either.
SelectTick ==
    /\ simPc = "select"
    /\ tickerC
    /\ tickerC' = FALSE
    /\ simPc' = "tick"
    /\ ticksAfterCancel' = IF ctxDone THEN ticksAfterCancel + 1 ELSE ticksAfterCancel
    /\ UNCHANGED <<mainPc, ctxDone, simulationRunning, fires, toWrite, simWrites>>
    /\ UNCHANGED notSimVars

\* simulateEvents up to its loop: the sample of articles, `return` when it
\* is empty, else numEvents := rand.Intn(16) + 5.
SampleArticles ==
    /\ simPc = "tick"
    /\ IF ArticleIDs = {}
       THEN /\ simPc' = "select"
            /\ toWrite' = 0
       ELSE /\ simPc' = "write"
            /\ \E n \in RandIntn16 : toWrite' = n + MinEvents
    /\ UNCHANGED <<mainPc, ctxDone, simulationRunning, tickerC, fires, simWrites,
                   ticksAfterCancel>>
    /\ UNCHANGED notSimVars

\* One iteration of simulateEvents' loop: db.GetDB().Create(&event); after
\* the last one simulateEvents returns to the select.
WriteEvent ==
    /\ simPc = "write"
    /\ simWrites' = simWrites + 1
    /\ toWrite' = toWrite - 1
    /\ simPc' = IF toWrite = 1 THEN "select" ELSE "write"
    /\ UNCHANGED <<mainPc, ctxDone, simulationRunning, tickerC, fires,
                   ticksAfterCancel>>
    /\ UNCHANGED notSimVars

NextSim ==
    \/ StartEventSimulation
    \/ Cancel
    \/ Exit
    \/ TickerFire
    \/ SelectDone
    \/ SelectTick
    \/ SampleArticles
    \/ WriteEvent

SpecSim == Init /\ [][NextSim]_vars

----------------------------------------------------------------------------
(* The package-level TrendingCache with its cleanup goroutine *)

\* Time is kept as ages: an entry records how long ago its Timestamp was
\* taken, and every age beyond the TTL is the same age, "older than the
\* TTL", since the code only compares ages with the TTL.
OlderThanTTL == cacheTTL + 1

\* The article lists (ids in rank order) callers pass to Set.
CachedLists == {<<1>>, <<2, 1>>}

\* A cleanup that deletes nothing.
CleanupExpiredNever(entry) == FALSE

\* cleanup's `now.Sub(entry.Timestamp) > tc.ttl`
CleanupExpired(entry) == entry.age > cacheTTL

\* Get's `time.Since(entry.Timestamp) > tc.ttl`
GetExpired(entry) == entry.age > cacheTTL

\* TrendingCache.Set: Lock; tc.cache[key] = &CacheEntry{articles, time.Now()}
TrendingCacheSet ==
    /\ tcProc # "exited"
    /\ \E k \in Keys, list \in CachedLists :
         tcCache' = [tcCache EXCEPT ![k] = [articles |-> list, age |-> 0]]
    /\ UNCHANGED <<tcPhase, tcTickerC, tcGot, tcRemoved, tcProc>>
    /\ UNCHANGED notTcVars

\* TrendingCache.Get: RLock; not found when the key has no entry or the
\* entry is older than the TTL, else the entry's articles.
TrendingCacheGet ==
    /\ tcProc # "exited"
    /\ \E k \in Keys :
         tcGot' = IF tcCache[k] = NoEntry \/ GetExpired(tcCache[k])
                  THEN [found |-> FALSE, articles |-> <<>>, key |-> k]
                  ELSE [found |-> TRUE, articles |-> tcCache[k].articles, key |-> k]
    /\ UNCHANGED <<tcCache, tcPhase, tcTickerC, tcRemoved, tcProc>>
    /\ UNCHANGED notTcVars

\* One clock unit passes: every entry ages, and the ticker made by
\* time.NewTicker(ttl) fires each time a TTL has gone by; its channel holds
\* one tick and a tick that finds it full is dropped.
Elapse ==
    /\ tcProc # "exited"
    /\ tcCache' = [k \in Keys |->
                     IF tcCache[k] = NoEntry THEN NoEntry
                     ELSE [tcCache[k] EXCEPT !.age = Min(@ + 1, OlderThanTTL)]]
    /\ tcPhase' = (tcPhase + 1) % cacheTTL
    /\ tcTickerC' = (tcTickerC \/ tcPhase' = 0)
    /\ UNCHANGED <<tcGot, tcRemoved, tcProc>>
    /\ UNCHANGED notTcVars

\* One round of cleanup's `for range tc.ticker.C`: Lock; delete every entry
\* older than the TTL; Unlock.
cleanup ==
    /\ tcProc # "exited"
    /\ tcTickerC
    /\ tcTickerC' = FALSE
    /\ tcRemoved' = {k \in Keys : tcCache[k] # NoEntry /\ CleanupExpired(tcCache[k])}
    /\ tcCache' = [k \in Keys |-> IF k \in tcRemoved' THEN NoEntry ELSE tcCache[k]]
    /\ UNCHANGED <<tcPhase, tcGot, tcProc>>
    /\ UNCHANGED notTcVars

NextCache ==
    \/ TrendingCacheSet
    \/ TrendingCacheGet
    \/ Elapse
    \/ cleanup

\* Time passes, and the cleanup goroutine takes every tick it is sent.
\* Nothing makes callers call Get or Set.
SpecCache ==
    Init /\ [][NextCache]_vars /\ WF_vars(Elapse) /\ WF_vars(cleanup)

\* SIGINT or SIGTERM reaches the process.  main registers no handler and
\* creates no context, so the runtime's default disposition applies: the
\* process is about to be terminated, and until it is its goroutines run on.
Interrupt ==
    /\ tcProc = "running"
    /\ tcProc' = "signalled"
    /\ UNCHANGED <<tcCache, tcPhase, tcTickerC, tcGot, tcRemoved>>
    /\ UNCHANGED notTcVars

\* The process ends: terminated by the signal, or log.Fatalf after r.Run
\* returned an error.  The cleanup goroutine ends with it.
ProcessExit ==
    /\ tcProc # "exited"
    /\ tcProc' = "exited"
    /\ UNCHANGED <<tcCache, tcPhase, tcTickerC, tcGot, tcRemoved>>
    /\ UNCHANGED notTcVars

NextShutdown ==
    \/ TrendingCacheSet
    \/ TrendingCacheGet
    \/ Elapse
    \/ cleanup
    \/ Interrupt
    \/ ProcessExit

\* The cache in a process that may be shut down.
SpecShutdown == Init /\ [][NextShutdown]_vars

----------------------------------------------------------------------------
(* Configuration, service construction and cluster keys on their own *)

\* LOCATION_CLUSTER_DEGREES values (milli-degrees) and TRENDING_CACHE_TTL
\* values (clock units) the environment may set; getEnvFloat and getEnvInt
\* accept every number that parses.
ClusterDegreeSettings == {-500, 0, 1, 500}
TTLSettings == {-1, 0, 1}
\* Coordinates (milli-degrees) handed to the key function.
KeyLats == {-300, -100, 0, 1, 2, 100, 200, 300, 400}
KeyLons == {-100, 100}
KeyPoints == [lat : KeyLats, lon : KeyLons]

InitConfig ==
    /\ InitStarts
    /\ InitTickIdle
    /\ events = <<>>
    /\ InitService /\ InitSimulator /\ InitCache /\ InitScorerIdle
    /\ InitLimitIdle /\ InitEnrichIdle
    /\ ckConfig \in [clusterDegrees : ClusterDegreeSettings, ttl : TTLSettings]
    /\ ckPoints \in KeyPoints \X KeyPoints
    /\ NothingConfigured

\* services.NewTrendingService(cfg.TrendingCacheTTL, cfg.LocationClusterDegrees)
NewTrendingService ==
    /\ ckService = NoService
    /\ ckService' = [cacheTTL |-> ckConfig.ttl,
                     clusterDegrees |-> ckConfig.clusterDegrees]
    /\ UNCHANGED <<ckConfig, ckPoints, ckKeys, ckServed>>
    /\ UNCHANGED notCkVars

\* utils.GetLocationClusterKey(lat, lon, clusterDegrees) for both points.
ClusterKeyCalls ==
    /\ ckKeys = <<>>
    /\ ckKeys' = <<GetLocationClusterKey(ckPoints[1].lat, ckPoints[1].lon,
                                         ckConfig.clusterDegrees),
                   GetLocationClusterKey(ckPoints[2].lat, ckPoints[2].lon,
                                         ckConfig.clusterDegrees)>>
    /\ UNCHANGED <<ckConfig, ckPoints, ckService, ckServed>>
    /\ UNCHANGED notCkVars

\* GetTrendingArticles on the constructed service: it keys the request,
\* looks the key up, and on a miss computes, stores and returns; neither
\* field of the service is tested on the way.
ServeRequest ==
    /\ ckService # NoService
    /\ ~ckServed
    /\ ckServed' = TRUE
    /\ UNCHANGED <<ckConfig, ckPoints, ckKeys, ckService>>
    /\ UNCHANGED notCkVars

NextConfig == NewTrendingService \/ ClusterKeyCalls \/ ServeRequest

SpecConfig == InitConfig /\ [][NextConfig]_vars

----------------------------------------------------------------------------
(* NewsHandler.getLimit and the size of a response *)

\* Characters of the limit parameter, and the parameters a request may carry.
LimitChars == {"-", "0", "1", "9", "x"}
LimitParams == UNION {[1..n -> LimitChars] : n \in 0..MaxLimitLen}
\* Numbers of articles an endpoint's query may produce.
FoundCounts == {0, 3, 99, 100, 101, 500}

DecimalDigits == {"0", "1", "9"}
DigitValue(c) == CASE c = "0" -> 0 [] c = "1" -> 1 [] OTHER -> 9

\* The number a non-empty run of digits denotes.
RECURSIVE DecimalValue(_)
DecimalValue(digits) ==
    IF digits = <<>> THEN 0
    ELSE 10 * DecimalValue(SubSeq(digits, 1, Len(digits) - 1))
           + DigitValue(digits[Len(digits)])

\* strconv.Atoi: an optional sign, then one or more decimal digits and
\* nothing else; an error otherwise.
Atoi(str) ==
    LET neg == str # <<>> /\ str[1] = "-"
        digits == IF neg THEN Tail(str) ELSE str
    IN  IF digits = <<>> \/ \E i \in 1..Len(digits) : digits[i] \notin DecimalDigits
        THEN [err |-> TRUE, value |-> 0]
        ELSE [err |-> FALSE,
              value |-> IF neg THEN -DecimalValue(digits) ELSE DecimalValue(digits)]

\* The limit handling of the older handlers: default 5, no upper bound.
getLimitUncapped(limitStr) ==
    IF Atoi(limitStr).err \/ Atoi(limitStr).value <= 0 THEN 5
    ELSE Atoi(limitStr).value

\* NewsHandler.getLimit
getLimit(limitStr) ==
    IF limitStr = <<>> THEN 5
    ELSE IF Atoi(limitStr).err \/ Atoi(limitStr).value <= 0 THEN 5
    ELSE IF Atoi(limitStr).value > 100 THEN 100
    ELSE Atoi(limitStr).value

InitLimit ==
    /\ InitStarts
    /\ InitTickIdle
    /\ events = <<>>
    /\ InitService /\ InitSimulator /\ InitCache
    /\ InitScorerIdle /\ InitConfigDefault /\ InitEnrichIdle
    /\ lmParam \in LimitParams
    /\ lmFound \in FoundCounts
    /\ NoLimitYet

\* limit := h.getLimit(c)
GetLimit ==
    /\ lmLimit = -1
    /\ lmLimit' = getLimit(lmParam)
    /\ UNCHANGED <<lmParam, lmFound, lmCount>>
    /\ UNCHANGED notLmVars

\* `if len(articles) > limit { articles = articles[:limit] }` (for /trending
\* the same cut inside GetTrendingArticles), then sendResponse.
SendResponse ==
    /\ lmLimit # -1
    /\ lmCount = -1
    /\ lmCount' = IF lmFound > lmLimit THEN lmLimit ELSE lmFound
    /\ UNCHANGED <<lmParam, lmFound, lmLimit>>
    /\ UNCHANGED notLmVars

NextLimit == GetLimit \/ SendResponse

SpecLimit == InitLimit /\ [][NextLimit]_vars

----------------------------------------------------------------------------
(* GetTrending's cached list and enrichWithSummaries *)

InitEnrichment ==
    /\ InitStarts
    /\ InitTickIdle
    /\ events = <<>>
    /\ InitService /\ InitSimulator /\ InitCache
    /\ InitScorerIdle /\ InitConfigDefault /\ InitLimitIdle
    /\ InitEnrich

\* The LLMSummary fields of the objects of a list, in order.
SummariesOf(list, heap) == [i \in 1..Len(list) |-> heap[list[i]]]

\* A miss of GetTrendingArticles: computeTrending reads the rows into new
\* Article objects, the list of pointers to them goes into the cache, and
\* `articles[:limit]`, a slice of the same pointers, goes to the handler.
\* The entry before it, if any, had expired.
EnrichMiss ==
    /\ enPos = 0
    /\ enStores < MaxStores
    /\ \E ids \in {<<1>>, <<1, 2>>, <<2, 1>>}, limit \in 1..2 :
         LET objs == [i \in 1..Len(ids) |-> <<enStores + 1, ids[i]>>]
             heap == [o \in DOMAIN enHeap \cup {objs[i] : i \in 1..Len(objs)} |->
                         IF o \in DOMAIN enHeap THEN enHeap[o] ELSE enDb[o[2]]]
         IN  /\ enHeap' = heap
             /\ enEntry' = [articles |-> objs]
             /\ enStored' = SummariesOf(objs, heap)
             /\ enList' = Truncate(objs, limit)
    /\ enStores' = enStores + 1
    /\ enPos' = 1
    /\ UNCHANGED enDb
    /\ UNCHANGED notEnVars

\* A hit: `cached.Articles[:limit]` goes to the handler.
EnrichHit ==
    /\ enPos = 0
    /\ enEntry # NoEntry
    /\ \E limit \in 1..2 : enList' = Truncate(enEntry.articles, limit)
    /\ enPos' = 1
    /\ UNCHANGED <<enDb, enHeap, enStores, enEntry, enStored>>
    /\ UNCHANGED notEnVars

\* One iteration of enrichWithSummaries' loop: for an article without a
\* summary the LLM is asked, and on success the summary is written into the
\* object and into its row.
EnrichArticle ==
    /\ enPos \in 1..Len(enList)
    /\ \E err \in BOOLEAN :
         LET article == enList[enPos]
         IN  IF enHeap[article] = "" /\ ~err
             THEN /\ enHeap' = [enHeap EXCEPT ![article] = "summary"]
                  /\ enDb' = [enDb EXCEPT ![article[2]] = "summary"]
             ELSE UNCHANGED <<enHeap, enDb>>
    /\ enPos' = enPos + 1
    /\ UNCHANGED <<enStores, enEntry, enStored, enList>>
    /\ UNCHANGED notEnVars

\* The loop has ended: sendResponse.
EnrichRespond ==
    /\ enPos = Len(enList) + 1
    /\ enPos' = 0
    /\ enList' = <<>>
    /\ UNCHANGED <<enDb, enHeap, enStores, enEntry, enStored>>
    /\ UNCHANGED notEnVars

NextEnrichment == EnrichMiss \/ EnrichHit \/ EnrichArticle \/ EnrichRespond

SpecEnrichment == InitEnrichment /\ [][NextEnrichment]_vars

----------------------------------------------------------------------------
(* StartEventSimulation under several callers *)

\* A mutex that is granted to whoever asks.
CanLockSimulationAlways == TRUE

\* ts.simulationMutex.Lock() is granted while nobody holds the mutex.
CanLockSimulation == stMutex = "none"

\* ts.simulationMutex.Lock()
StartLock(c) ==
    /\ stPc[c] = "idle"
    /\ CanLockSimulation
    /\ stMutex' = c
    /\ stPc' = [stPc EXCEPT ![c] = "test"]
    /\ UNCHANGED <<stRunning, stCtxDone, stLoops>>
    /\ UNCHANGED notStVars

\* `if ts.simulationRunning { Unlock; return }`
StartTest(c) ==
    /\ stPc[c] = "test"
    /\ IF stRunning
       THEN /\ stMutex' = IF stMutex = c THEN "none" ELSE stMutex
            /\ stPc' = [stPc EXCEPT ![c] = "done"]
       ELSE /\ stMutex' = stMutex
            /\ stPc' = [stPc EXCEPT ![c] = "set"]
    /\ UNCHANGED <<stRunning, stCtxDone, stLoops>>
    /\ UNCHANGED notStVars

\* ts.simulationRunning = true; ts.simulationMutex.Unlock()
StartSet(c) ==
    /\ stPc[c] = "set"
    /\ stRunning' = TRUE
    /\ stMutex' = IF stMutex = c THEN "none" ELSE stMutex
    /\ stPc' = [stPc EXCEPT ![c] = "go"]
    /\ UNCHANGED <<stCtxDone, stLoops>>
    /\ UNCHANGED notStVars

\* go func() { ... }(): the loop starts and the call returns.
StartGo(c) ==
    /\ stPc[c] = "go"
    /\ stLoops' = [stLoops EXCEPT ![c] = "looping"]
    /\ stPc' = [stPc EXCEPT ![c] = "done"]
    /\ UNCHANGED <<stMutex, stRunning, stCtxDone>>
    /\ UNCHANGED notStVars

\* The context handed to call c is cancelled.
StartCancel(c) ==
    /\ c \notin stCtxDone
    /\ stCtxDone' = stCtxDone \cup {c}
    /\ UNCHANGED <<stMutex, stRunning, stPc, stLoops>>
    /\ UNCHANGED notStVars

\* The loop's `case <-ctx.Done(): return`.
LoopReturn(c) ==
    /\ stLoops[c] = "looping"
    /\ c \in stCtxDone
    /\ stLoops' = [stLoops EXCEPT ![c] = "returned"]
    /\ UNCHANGED <<stMutex, stRunning, stPc, stCtxDone>>
    /\ UNCHANGED notStVars

NextStarts ==
    \/ \E c \in Starters : StartLock(c)
    \/ \E c \in Starters : StartTest(c)
    \/ \E c \in Starters : StartSet(c)
    \/ \E c \in Starters : StartGo(c)
    \/ \E c \in Starters : StartCancel(c)
    \/ \E c \in Starters : LoopReturn(c)

SpecStarts == Init /\ [][NextStarts]_vars

----------------------------------------------------------------------------
(* simulateEvents, one tick after another *)

\* Sizes of the articles table; its rows have the ids 1..n.
StoreSizes == {0, 1, SampleLimit + 1}

\* The values of rand.Intn(16) this model draws: the least and the largest.
TickIntn16 == {0, 15}

\* The values of rand.Float64() this model draws, per mille (of [0, 1)).
RandFloat64 == {0, 999}

\* The article of row id: coordinates in milli-degrees.
SimArticle(id) ==
    [id |-> id, lat |-> 1000 * (id % 90), lon |-> 0 - 1000 * (id % 180)]

\* A read that returns every row whatever the limit.
LimitRowsNone(n) == n

\* Limit(100): the number of rows the read returns of a table of n.
LimitRows(n) == Min(n, SampleLimit)

\* Limit(100).Find(&articles) names no order, so which rows a cut read
\* leaves out is the store's choice; the model leaves out the first or
\* the last id.
Samples(n) ==
    IF LimitRows(n) >= n THEN {1..n}
    ELSE {(1..n) \ {x} : x \in {1, n}}

\* articles[rand.Intn(len(articles))]: of the articles of the sample the
\* model picks those at its ends, the ids with no sampled id just below or
\* just above them.
Picks(sample) ==
    {id \in sample : id - 1 \notin sample \/ id + 1 \notin sample}

\* A coordinate moved by up to two degrees either way.
PerturbWide(coord, f) == coord + (f - 500) * 4

\* article.Latitude + (rand.Float64()-0.5)*2.0, f per mille and the
\* coordinate in milli-degrees.
Perturb(coord, f) == coord + (f - 500) * 2

\* `if rand.Float64() < 0.4 { eventType = models.EventTypeClick }`
SimEventType(f) == IF f < 400 THEN EventTypeClick ELSE EventTypeView

\* A loop that gives up at the first Create that fails.
NextIndexAbortOnFailure(i, num, ok) == IF ok THEN i + 1 ELSE num

\* `i++` after db.GetDB().Create(&event), whose result is dropped.
NextIndex(i, num, ok) == i + 1

\* A simulator that stops when it can sample no article.
AfterFindStopOnEmpty(n) == IF n = 0 THEN "returned" ELSE "loop"

\* `if len(articles) == 0 { return }`: simulateEvents returns to the loop's
\* select, otherwise it goes on to its own loop.
AfterFind(n) == IF n = 0 THEN "select" ELSE "loop"

InitTicks ==
    /\ InitService /\ InitSimulator /\ InitCache
    /\ InitScorerIdle /\ InitConfigDefault /\ InitLimitIdle /\ InitEnrichIdle
    /\ InitStarts
    /\ events = <<>>
    /\ InitTick
    /\ tkArticles \in StoreSizes

\* The context handed to StartEventSimulation is cancelled.
TickCancel ==
    /\ ~tkCtxDone
    /\ tkCtxDone' = TRUE
    /\ UNCHANGED <<tkArticles, tkPc, tkSample, tkNum, tkI, tkRows, tkLast,
                   tkFailures, tkTicks, tkHist>>
    /\ UNCHANGED notTkVars

\* `case <-ctx.Done(): return`
TickSelectDone ==
    /\ tkPc = "select"
    /\ tkCtxDone
    /\ tkPc' = "returned"
    /\ UNCHANGED <<tkArticles, tkCtxDone, tkSample, tkNum, tkI, tkRows, tkLast,
                   tkFailures, tkTicks, tkHist>>
    /\ UNCHANGED notTkVars

\* `case <-ticker.C: ts.simulateEvents()`: the call begins.
TickSelectTick ==
    /\ tkPc = "select"
    /\ tkTicks < MaxTicks
    /\ tkPc' = "find"
    /\ UNCHANGED <<tkArticles, tkCtxDone, tkSample, tkNum, tkI, tkRows, tkLast,
                   tkFailures, tkTicks, tkHist>>
    /\ UNCHANGED notTkVars

\* db.GetDB().Limit(100).Find(&articles), its error dropped: a read that
\* fails leaves articles empty.  Then the test for an empty sample and
\* numEvents := rand.Intn(16) + 5.
TickFind ==
    /\ tkPc = "find"
    /\ \E readFails \in BOOLEAN, drawn \in Samples(tkArticles), n \in TickIntn16 :
         LET sample == IF readFails THEN {} ELSE drawn
             empty == sample = {}
         IN  /\ tkSample' = sample
             /\ tkPc' = AfterFind(Cardinality(sample))
             /\ tkNum' = IF empty THEN tkNum ELSE n + MinEvents
             /\ tkI' = IF empty THEN tkI ELSE 0
             /\ tkTicks' = IF empty THEN tkTicks + 1 ELSE tkTicks
             /\ tkHist' = IF empty
                          THEN [tkHist EXCEPT !.emptyTicks = @ + 1]
                          ELSE [tkHist EXCEPT !.failed = FALSE]
    /\ tkLast' = NoEvent
    /\ UNCHANGED <<tkArticles, tkCtxDone, tkRows, tkFailures>>
    /\ UNCHANGED notTkVars

\* One iteration of simulateEvents' loop: the article, the event type, the
\* coordinates, then db.GetDB().Create(&event), which writes the row or
\* fails.
TickCreate ==
    /\ tkPc = "loop"
    /\ tkI < tkNum
    /\ \E id \in Picks(tkSample), fType \in RandFloat64, fLat \in RandFloat64,
          fLon \in RandFloat64, ok \in BOOLEAN :
         /\ ~ok => tkFailures < MaxWriteFailures
         /\ tkLast' = [articleID |-> SimArticle(id).id,
                       eventType |-> SimEventType(fType),
                       lat |-> Perturb(SimArticle(id).lat, fLat),
                       lon |-> Perturb(SimArticle(id).lon, fLon),
                       ok |-> ok]
         /\ tkRows' = IF ok THEN tkRows + 1 ELSE tkRows
         /\ tkFailures' = IF ok THEN tkFailures ELSE tkFailures + 1
         /\ tkHist' = IF ok THEN tkHist ELSE [tkHist EXCEPT !.failed = TRUE]
         /\ tkI' = NextIndex(tkI, tkNum, ok)
    /\ UNCHANGED <<tkArticles, tkCtxDone, tkPc, tkSample, tkNum, tkTicks>>
    /\ UNCHANGED notTkVars

\* `i < numEvents` fails: simulateEvents returns to the loop's select.
TickEnd ==
    /\ tkPc = "loop"
    /\ ~(tkI < tkNum)
    /\ tkPc' = "select"
    /\ tkTicks' = tkTicks + 1
    /\ tkHist' = IF tkHist.failed
                 THEN [tkHist EXCEPT !.failedTicks = @ + 1]
                 ELSE tkHist
    /\ UNCHANGED <<tkArticles, tkCtxDone, tkSample, tkNum, tkI, tkRows, tkLast,
                   tkFailures>>
    /\ UNCHANGED notTkVars

NextTicks ==
    \/ TickCancel
    \/ TickSelectDone
    \/ TickSelectTick
    \/ TickFind
    \/ TickCreate
    \/ TickEnd

SpecTicks == InitTicks /\ [][NextTicks]_vars

----------------------------------------------------------------------------
(* computeTrending on its own: a fixed store and clock, repeated calls *)

\* Articles the stored events may reference, the times at which they were
\* created, and the clock values and limits of the calls.
ScorerEventArticles == {1, 2, 4}
ScorerEventTimes == {-1, 0}
ScorerClocks == {0, 1}
ScorerLimits == {1, 2, 5}

ScorerEventRows ==
    {EventRow([articleID |-> a, eventType |-> ty], t) :
        a \in ScorerEventArticles, ty \in EventTypes, t \in ScorerEventTimes}

\* The events tables: every sequence of at most MaxEvents rows.
ScorerTables == UNION {[1..n -> ScorerEventRows] : n \in 0..MaxEvents}

InitScore ==
    /\ InitStarts
    /\ InitTickIdle
    /\ events = <<>>
    /\ InitService /\ InitSimulator /\ InitCache /\ InitConfigDefault
    /\ InitLimitIdle /\ InitEnrichIdle
    /\ scEvents \in ScorerTables
    /\ scNow \in ScorerClocks
    /\ scQuery \in [lat : Lats, lon : Lons, limit : ScorerLimits]
    /\ scBuild \in BOOLEAN
    /\ NoScorerCalls

\* The events computeTrending reads: those of the last hour.
ScorerWindow == FindEventsSince(scEvents, scNow - OneHour)

\* One call computeTrending(lat, lon, limit) whose reads succeed.
ScorerCall ==
    /\ scCalls < MaxCalls
    /\ \E articleIDs \in RangeKeyOrders(EventArticleIDs(ScorerWindow)) :
         /\ scResult' = computeTrending(ScorerWindow, scNow, scQuery.lat, scQuery.lon,
                                        scQuery.limit, scBuild, articleIDs)
         /\ scScores' = RowScores(ScorerWindow, scNow, scQuery.lat, scQuery.lon,
                                  articleIDs)
         /\ scOrder' = articleIDs
    /\ scPrev' = IF scCalls = 0 THEN NoCall
                 ELSE [order |-> scOrder, result |-> scResult,
                       changed |-> scChanged]
    /\ scChanged' = FALSE
    /\ scCalls' = scCalls + 1
    /\ UNCHANGED <<scEvents, scNow, scQuery, scBuild>>
    /\ UNCHANGED notScVars

NextScore == ScorerCall

SpecScore == InitScore /\ [][NextScore]_vars

\* The rows a table with old events is made of: clicks on two articles, of
\* which those created at -1 are older than one hour at clock 1.
OldStoreRows ==
    {EventRow([articleID |-> a, eventType |-> EventTypeClick], t) :
        a \in {1, 2}, t \in ScorerEventTimes}
OldStoreTables == UNION {[1..n -> OldStoreRows] : n \in 0..MaxEvents}

InitScoreOld ==
    /\ InitStarts
    /\ InitTickIdle
    /\ events = <<>>
    /\ InitService /\ InitSimulator /\ InitCache /\ InitConfigDefault
    /\ InitLimitIdle /\ InitEnrichIdle
    /\ scEvents \in OldStoreTables
    /\ scNow = 1
    /\ scQuery \in [lat : Lats, lon : Lons, limit : {1, 2}]
    /\ scBuild \in BOOLEAN
    /\ NoScorerCalls

\* The rows that are not newer than one hour.
OldEventRows == {e \in OldStoreRows : ~(e.createdAt > scNow - OneHour)}

\* Between two calls a row older than the window is inserted into the
\* events table.
InsertOldEvent ==
    /\ scCalls > 0
    /\ Len(scEvents) < MaxEvents + 1
    /\ \E e \in OldEventRows : scEvents' = Append(scEvents, e)
    /\ scChanged' = TRUE
    /\ UNCHANGED <<scNow, scQuery, scBuild, scCalls, scOrder, scResult, scScores,
                   scPrev>>
    /\ UNCHANGED notScVars

\* Between two calls a row older than the window is deleted.
DeleteOldEvent ==
    /\ scCalls > 0
    /\ \E i \in 1..Len(scEvents) :
         /\ scEvents[i] \in OldEventRows
         /\ scEvents' = SubSeq(scEvents, 1, i - 1)
                          \o SubSeq(scEvents, i + 1, Len(scEvents))
    /\ scChanged' = TRUE
    /\ UNCHANGED <<scNow, scQuery, scBuild, scCalls, scOrder, scResult, scScores,
                   scPrev>>
    /\ UNCHANGED notScVars

NextScoreOld == ScorerCall \/ InsertOldEvent \/ DeleteOldEvent

\* Calls of computeTrending on a store whose old events come and go.
SpecScoreOld == InitScoreOld /\ [][NextScoreOld]_vars

\* The ranges of the clock, the positions and the counters.
TypeOK ==
    /\ now \in 0..MaxTime
    /\ \A r \in Requests :
         pc[r] \in {"idle", "read", "check", "compute", "store", "unlock",
                    "done"}
    /\ mainPc \in {"init", "serving", "cancelled", "exited"}
    /\ simPc \in {"none", "select", "tick", "write", "returned", "killed"}
    /\ fires \in 0..MaxFires
    /\ toWrite \in 0..(MinEvents + 15)
    /\ ticksAfterCancel \in 0..MaxFires
    /\ tkPc \in {"select", "find", "loop", "returned"}
    /\ tkTicks \in 0..MaxTicks
    /\ tkFailures \in 0..MaxWriteFailures
    /\ tkRows \in 0..(MaxTicks * (MinEvents + 15))

----------------------------------------------------------------------------
(* Properties of the trending cache *)

\* Request r takes the step from position `from` to another position.
Leaves(r, from) == pc[r] = from /\ pc'[r] # from

\* list is the first min(limit, Len(whole)) articles of whole, in order.
IsPrefixOf(list, whole, limit) ==
    /\ Len(list) = Min(limit, Len(whole))
    /\ \A i \in 1..Len(list) : list[i] = whole[i]

\* The two requests are at coordinates of one cluster key.
SameKey(r1, r2) == KeyOf(r1) = KeyOf(r2)

\* C1, as stated: while every request so far was issued within the TTL, two
\* requests for one cluster key, overlapping or not, never both get a result
\* from computeTrending: only one of them invokes it.
C1_OneComputePerCluster ==
    now < cacheTTL =>
        \A r1, r2 \in Requests :
            (r1 # r2 /\ pc[r1] \in {"store", "unlock"} /\ pc[r2] \in {"store", "unlock"})
                => ~SameKey(r1, r2)

\* C1, amended: a request that looks its key up after another request stored
\* a result for that key, with no ClearCache in between, finds that result's
\* entry; and when its freshness test runs before the entry expires it is
\* served from the cache without invoking computeTrending.
C1_SecondServedFromCache ==
    [][\A r \in Requests :
         /\ (Leaves(r, "read") /\ lastSet[KeyOf(r)] # NoEntry)
                => /\ cached'[r] # NoEntry
                   /\ cached'[r].expiresAt = lastSet[KeyOf(r)].at + cacheTTL
         /\ (Leaves(r, "check") /\ cached[r] # NoEntry /\ now < cached[r].expiresAt)
                => /\ pc'[r] = "done"
                   /\ hist'[r].path = "hit"
                   /\ resp'[r].status = 200
                   /\ articles'[r] = <<>>]_vars

\* Two finished requests at different coordinates of one cluster: one
\* computed and stored, the other was served from the cache.
C1_Witness ==
    \E r1, r2 \in Requests :
        /\ pc[r1] = "done" /\ hist[r1].wrote /\ resp[r1].status = 200
        /\ pc[r2] = "done" /\ hist[r2].path = "hit" /\ resp[r2].status = 200
        /\ resp[r1].query # resp[r2].query
        /\ GetLocationClusterKey(resp[r1].query[1], resp[r1].query[2], clusterDegrees)
             = GetLocationClusterKey(resp[r2].query[1], resp[r2].query[2], clusterDegrees)

\* C2: a lookup that found no entry, or an entry written more than the TTL
\* ago, is a miss: nothing is served from the cache and the call goes on to
\* computeTrending.
C2_StaleNeverServed ==
    [][\A r \in Requests :
         (Leaves(r, "check")
            /\ (cached[r] = NoEntry \/ now - cached[r].setAt > cacheTTL))
         => /\ pc'[r] = "compute"
            /\ hist'[r].path \in {"absent", "stale"}
            /\ resp'[r] = NoResp]_vars

\* A request recomputes while the stale entry of its key is still stored.
C2_Witness ==
    \E r \in Requests :
        /\ pc[r] = "compute" /\ hist[r].path = "stale"
        /\ cache[KeyOf(r)] # NoEntry
        /\ now - cache[KeyOf(r)].setAt > cacheTTL

\* C3: the step in which computeTrending fails leaves the cache mapping as
\* it was and ends the call, so the call creates, replaces and removes
\* nothing.
C3_FailureLeavesCache ==
    [][\A r \in Requests :
         /\ (Leaves(r, "compute") /\ hist'[r].storeFailed)
                => (cache' = cache /\ pc'[r] = "done")
         /\ hist[r].storeFailed => (~hist[r].wrote /\ pc[r] = "done")]_vars

\* A call failed in computeTrending while the cache held an entry.
C3_Witness ==
    \E r \in Requests :
        /\ pc[r] = "done" /\ hist[r].storeFailed /\ hist[r].path = "miss"
        /\ \E k \in Keys : cache[k] # NoEntry

\* C4: a call whose computeTrending had a failing store read has returned an
\* error, and the handler has answered 500 with no article list.
C4_StoreFailureIsServerError ==
    \A r \in Requests :
        hist[r].storeFailed =>
            /\ pc[r] = "done"
            /\ resp[r].status = 500
            /\ resp[r].articles = <<>>
            /\ resp[r].query = <<>>

\* A request answered 500 after a failed store read.
C4_Witness ==
    \E r \in Requests :
        pc[r] = "done" /\ hist[r].storeFailed /\ resp[r].status = 500

\* C5: on a miss the scorer runs with the limit 3*limit (with no event in
\* the window that is the min(3*limit, number of articles) most recent
\* articles, never more than 3*limit), the store files the scorer's whole
\* result under the request's cluster key and touches no other key, and
\* the call returns the first min(limit, length) articles of that result.
C5_MissStoresInflatedReturnsPrefix ==
    [][\A r \in Requests :
         /\ (Leaves(r, "compute") /\ pc'[r] = "store")
                => /\ Len(articles'[r]) <= InflateFactor * arg[r].limit
                   /\ FindEventsSince(events, now - OneHour) = <<>>
                        => Len(articles'[r])
                             = Min(InflateFactor * arg[r].limit, Cardinality(ArticleIDs))
         /\ Leaves(r, "store")
                => /\ cache'[KeyOf(r)] # NoEntry
                   /\ cache'[KeyOf(r)].articles = articles[r]
                   /\ \A k \in Keys \ {KeyOf(r)} : cache'[k] = cache[k]
         /\ Leaves(r, "unlock")
                => /\ resp'[r].status = 200
                   /\ IsPrefixOf(resp'[r].articles, articles[r], arg[r].limit)
                   /\ cache'[KeyOf(r)].articles = articles[r]]_vars

\* A miss whose scorer result was cut at 3*limit and is stored whole, longer
\* than the limit the request asked for.
C5_Witness ==
    \E r \in Requests :
        /\ pc[r] = "unlock"
        /\ Len(articles[r]) = InflateFactor * arg[r].limit
        /\ Len(articles[r]) < Cardinality(ArticleIDs)
        /\ cache[KeyOf(r)].articles = articles[r]

\* C6: a hit answers with the first min(limit, length) articles of the
\* cached list in cached order, goes nowhere near computeTrending and leaves
\* the cache as it was.
C6_HitReturnsPrefixOfCached ==
    [][\A r \in Requests :
         (Leaves(r, "check") /\ cached[r] # NoEntry /\ now < cached[r].expiresAt)
         => /\ pc'[r] = "done"
            /\ resp'[r].status = 200
            /\ IsPrefixOf(resp'[r].articles, cached[r].articles, arg[r].limit)
            /\ hist'[r].path = "hit"
            /\ articles'[r] = <<>>
            /\ cache' = cache]_vars

\* A hit served two articles of an entry that holds more, which a request
\* with limit 1 populated.
C6_Witness ==
    \E r \in Requests :
        /\ pc[r] = "done" /\ hist[r].path = "hit"
        /\ Len(resp[r].articles) = 2
        /\ \E k \in Keys :
             /\ cache[k] # NoEntry
             /\ Len(cache[k].articles) = InflateFactor
             /\ IsPrefixOf(resp[r].articles, cache[k].articles, 2)
             /\ k = GetLocationClusterKey(resp[r].query[1], resp[r].query[2],
                                          clusterDegrees)

\* C7: a lookup that follows a store for its key, with no later store or
\* ClearCache for it, reads exactly the stored list; and tested before the
\* TTL has elapsed since the store, the entry counts as found.
C7_GetAfterSet ==
    [][\A r \in Requests :
         /\ (Leaves(r, "read") /\ lastSet[KeyOf(r)] # NoEntry)
                => /\ cached'[r] # NoEntry
                   /\ cached'[r].articles = lastSet[KeyOf(r)].articles
                   /\ cached'[r].setAt = lastSet[KeyOf(r)].at
         /\ (Leaves(r, "check") /\ cached[r] # NoEntry /\ now - cached[r].setAt < cacheTTL)
                => hist'[r].path = "hit"]_vars

\* A lookup holds the list of the latest store for its key, before the TTL
\* has elapsed.
C7_Witness ==
    \E r \in Requests :
        /\ pc[r] = "check"
        /\ cached[r] # NoEntry
        /\ lastSet[KeyOf(r)] # NoEntry
        /\ cached[r].articles = lastSet[KeyOf(r)].articles
        /\ Len(cached[r].articles) > 0
        /\ now - cached[r].setAt < cacheTTL

\* An entry whose list and expiry come from one store.
Complete(entry) == entry.expiresAt = entry.setAt + cacheTTL

\* C8: no lookup holds the lock while a store does, and every entry in the
\* cache or in the hands of a lookup is complete: its list and its expiry
\* were written by one store.
C8_LookupSeesWholeEntry ==
    /\ rwWriter # "none" => rwReaders = {}
    /\ \A r \in rwReaders : pc[r] = "check"
    /\ rwWriter # "none" => pc[rwWriter] = "unlock"
    /\ \A k \in Keys : cache[k] # NoEntry => Complete(cache[k])
    /\ \A r \in Requests : cached[r] # NoEntry => Complete(cached[r])

\* A lookup holds the read lock and an entry while another request waits
\* to store a different list under the same key.
C8_Witness ==
    \E r1, r2 \in Requests :
        /\ r1 # r2
        /\ r1 \in rwReaders /\ cached[r1] # NoEntry
        /\ pc[r2] = "store" /\ SameKey(r1, r2)
        /\ articles[r2] # cached[r1].articles

\* C9: ClearCache leaves no entry for any key; a key has no entry unless a
\* store for it came after the last ClearCache; and a lookup that finds no
\* entry is a miss.
C9_ClearCacheEmptiesAll ==
    [][/\ ClearCache => \A k \in Keys : cache'[k] = NoEntry
       /\ \A k \in Keys : lastSet'[k] = NoEntry => cache'[k] = NoEntry
       /\ \A r \in Requests :
            /\ (Leaves(r, "read") /\ lastSet[KeyOf(r)] = NoEntry)
                   => cached'[r] = NoEntry
            /\ (Leaves(r, "check") /\ cached[r] = NoEntry)
                   => pc'[r] = "compute"]_vars

\* ClearCache has discarded an entry that had not reached its TTL: a request
\* stored its result less than the TTL ago and the cache holds nothing for
\* any key.
C9_Witness ==
    \E r \in Requests :
        /\ pc[r] = "done" /\ hist[r].wrote /\ resp[r].status = 200
        /\ now < cacheTTL
        /\ \A k \in Keys : cache[k] = NoEntry

----------------------------------------------------------------------------
(* Properties of the event simulator *)

\* C10: once ctx is cancelled the simulator begins at most one further
\* simulateEvents call, and a simulator that has stopped has no write left
\* to make.
C10_AtMostOneTickAfterCancel ==
    /\ ticksAfterCancel <= 1
    /\ Stopped => toWrite = 0

----------------------------------------------------------------------------
(* Properties of the cleanup goroutine *)

\* C11: the cleanup ticker fires once per TTL; a cleanup round deletes
\* exactly the entries older than the TTL; and an entry older than the TTL
\* does not stay in the mapping: it is deleted, unless a Set replaces it
\* first, whether or not its cluster is queried again.
C11_CleanupRemovesExpired ==
    /\ [][/\ (~tcTickerC /\ tcTickerC') => tcPhase' = 0
          /\ cleanup =>
               \A k \in Keys :
                   tcCache'[k] = IF tcCache[k] # NoEntry /\ tcCache[k].age > cacheTTL
                                 THEN NoEntry ELSE tcCache[k]]_vars
    /\ \A k \in Keys :
           (tcCache[k] # NoEntry /\ tcCache[k].age > cacheTTL)
               ~> (tcCache[k] = NoEntry \/ tcCache[k].age <= cacheTTL)

\* A cleanup round has deleted an entry while it kept a younger one.
C11_Witness ==
    /\ tcRemoved # {}
    /\ \A k \in tcRemoved : tcCache[k] = NoEntry
    /\ \E k \in Keys : tcCache[k] # NoEntry

----------------------------------------------------------------------------
(* Properties of computeTrending *)

\* The elements of a list.
Range(list) == {list[i] : i \in 1..Len(list)}

\* C12: when no event lies in the last hour, a computeTrending call returns
\* the limit most recently published articles (all of them when the store
\* holds fewer than limit), each once, in publication order descending, and
\* never an empty list while the store holds articles.
C12_FallbackMostRecent ==
    (scCalls > 0 /\ EventArticleIDs(ScorerWindow) = {}) =>
        /\ Len(scResult) = Min(scQuery.limit, Cardinality(ArticleIDs))
        /\ Range(scResult) \subseteq ArticleIDs
        /\ \A i, j \in 1..Len(scResult) :
              i < j => ArticleRow(scResult[i]).pub > ArticleRow(scResult[j]).pub
        /\ \A a \in ArticleIDs \ Range(scResult) : \A b \in Range(scResult) :
              ArticleRow(a).pub <= ArticleRow(b).pub
        /\ (ArticleIDs # {} => scResult # <<>>)

\* A call on a store whose only events are older than the window, answered
\* with the two latest articles; and one asking for more than the store holds.
C12_Witness ==
    /\ scCalls > 0
    /\ scEvents # <<>>
    /\ EventArticleIDs(ScorerWindow) = {}
    /\ \/ scQuery.limit = 2 /\ scResult = <<2, 3>>
       \/ scQuery.limit > Cardinality(ArticleIDs) /\ Len(scResult) = Cardinality(ArticleIDs)

\* The accumulated score of article a over the events of the window, for the
\* query of the calls.
AccumulatedScore(a) ==
    InteractionScore(EventsOf(ScorerWindow, a), scNow, scQuery.lat, scQuery.lon)

\* C13: when an event lies in the last hour, a computeTrending call returns
\* at most limit articles in non-increasing order of accumulated score, and
\* no article it leaves out has a strictly higher accumulated score than one
\* it returns.
C13_ScoredDescendingTop ==
    (scCalls > 0 /\ EventArticleIDs(ScorerWindow) # {}) =>
        /\ Len(scResult) <= scQuery.limit
        /\ \A i, j \in 1..Len(scResult) :
              i < j => AccumulatedScore(scResult[i]) >= AccumulatedScore(scResult[j])
        /\ \A a \in ArticleIDs \ Range(scResult) : \A b \in Range(scResult) :
              AccumulatedScore(a) <= AccumulatedScore(b)

\* The same statement for the builds whose loop variable is per iteration.
C13_PerIterationBuilds == scBuild => C13_ScoredDescendingTop

\* Sum of f over the index set S.
RECURSIVE SumOver(_, _)
SumOver(f, S) ==
    IF S = {} THEN 0
    ELSE LET x == CHOOSE y \in S : TRUE
         IN  f[x] + SumOver(f, S \ {x})

\* What the i-th event of the window is worth by the formula: 2 for a CLICK
\* and 1 for a VIEW, times the recency factor of its age, times the geo
\* factor of its distance from the query point.
Contribution(i) ==
    LET e == ScorerWindow[i]
    IN  (IF e.eventType = "click" THEN 2 ELSE 1)
          * RecencyFactor(scNow - e.createdAt)
          * GeoFactor(Haversine(scQuery.lat, scQuery.lon, e.lat, e.lon))

\* C14: the score a computeTrending call gives an article is the sum, over
\* the in-window events that reference it, of weight * recencyFactor *
\* geoFactor with weight 2 for CLICK and 1 for VIEW.
C14_ScoreIsSumOfEventScores ==
    \A r \in 1..Len(scScores) :
        scScores[r].score =
            SumOver([i \in 1..Len(ScorerWindow) |-> Contribution(i)],
                    {i \in 1..Len(ScorerWindow) : ScorerWindow[i].articleID = scScores[r].id})

\* A call that scored an article with a CLICK and a VIEW of the same age in
\* the window: the score is three times the VIEW's contribution, the sum of
\* both, above the larger of the two.
C14_Witness ==
    /\ scCalls > 0
    /\ Len(ScorerWindow) = 2
    /\ ScorerWindow[1].articleID = ScorerWindow[2].articleID
    /\ ScorerWindow[1].createdAt = ScorerWindow[2].createdAt
    /\ ScorerWindow[1].eventType = "click" /\ ScorerWindow[2].eventType = "view"
    /\ Len(scScores) = 1
    /\ Contribution(1) = 2 * Contribution(2)
    /\ scScores[1].score = 3 * Contribution(2)
    /\ scScores[1].score > Contribution(1)

\* C15: with the events table, the articles and the clock unchanged, a
\* repeated computeTrending call with the same (lat, lon, limit) returns the
\* list the call before it returned, element by element.
C15_RepeatedCallSameList ==
    scPrev # NoCall => scResult = scPrev.result

\* Two calls that ranged over the map in different orders and both returned
\* the same two articles of equal score, in the same order.
C15_Witness ==
    /\ scPrev # NoCall
    /\ scPrev.order # scOrder
    /\ Len(scResult) = 2
    /\ scResult[1] # scResult[2]
    /\ AccumulatedScore(scResult[1]) = AccumulatedScore(scResult[2])
    /\ scResult = scPrev.result

----------------------------------------------------------------------------
(* Properties of the configuration and the cluster key *)

\* C16: with a non-positive cluster granularity or a non-positive TTL no
\* TrendingService serves a request, and the key function returns no key
\* for a non-positive cluster granularity.
C16_InvalidConfigurationRejected ==
    /\ (ckConfig.clusterDegrees <= 0 \/ ckConfig.ttl <= 0) => ~ckServed
    /\ ckConfig.clusterDegrees <= 0 => ckKeys = <<>>

\* C17: for a positive cluster granularity, two coordinates less than half a
\* cluster-degree apart in latitude and in longitude get the same key.
C17_NearbyPointsShareKey ==
    (/\ ckKeys # <<>>
     /\ ckConfig.clusterDegrees > 0
     /\ 2 * Abs(ckPoints[1].lat - ckPoints[2].lat) < ckConfig.clusterDegrees
     /\ 2 * Abs(ckPoints[1].lon - ckPoints[2].lon) < ckConfig.clusterDegrees)
        => ckKeys[1] = ckKeys[2]

\* The multiple of cd nearest to x (halves away from zero), as an integer
\* number of milli-degrees.
NearestMultiple(x, cd) ==
    LET m == ((2 * Abs(x) + cd) \div (2 * cd)) * cd
    IN  IF x < 0 THEN -m ELSE m

\* C18: for a positive cluster granularity, two coordinates get the same key
\* exactly when they round to the same multiple of it in latitude and in
\* longitude.
C18_SameKeyIffSameMultiples ==
    (ckKeys # <<>> /\ ckConfig.clusterDegrees > 0) =>
        (ckKeys[1] = ckKeys[2]
           <=> /\ NearestMultiple(ckPoints[1].lat, ckConfig.clusterDegrees)
                    = NearestMultiple(ckPoints[2].lat, ckConfig.clusterDegrees)
               /\ NearestMultiple(ckPoints[1].lon, ckConfig.clusterDegrees)
                    = NearestMultiple(ckPoints[2].lon, ckConfig.clusterDegrees))

----------------------------------------------------------------------------
(* Properties of the limit handling *)

\* The strings that spell an integer: one or more digits, or a minus sign
\* before one or more digits.
SpellsInteger(str) ==
    \/ Len(str) >= 1 /\ \A i \in 1..Len(str) : str[i] \in {"0", "1", "9"}
    \/ Len(str) >= 2 /\ str[1] = "-"
          /\ \A i \in 2..Len(str) : str[i] \in {"0", "1", "9"}

\* The integer such a string spells: each digit times the power of ten of
\* its place.
SpelledInteger(str) ==
    LET d(c) == IF c = "0" THEN 0 ELSE IF c = "1" THEN 1 ELSE 9
        ds == IF str[1] = "-" THEN Tail(str) ELSE str
        place == [i \in 1..Len(ds) |-> d(ds[i]) * 10 ^ (Len(ds) - i)]
        abs == SumOver(place, 1..Len(ds))
    IN  IF str[1] = "-" THEN -abs ELSE abs

\* C19: the effective limit is 5 when the parameter is missing, is not a
\* number or is <= 0, is 100 when the parameter exceeds 100 and is the
\* parameter's value otherwise; a response carries at most that many
\* articles, so never more than 100.
C19_EffectiveLimit ==
    /\ lmLimit # -1 =>
          lmLimit = IF ~SpellsInteger(lmParam) THEN 5
                    ELSE IF SpelledInteger(lmParam) <= 0 THEN 5
                    ELSE IF SpelledInteger(lmParam) > 100 THEN 100
                    ELSE SpelledInteger(lmParam)
    /\ lmCount # -1 => lmCount <= lmLimit /\ lmCount <= 100

\* A request with limit=101 on a query that found 500 articles, answered
\* with 100 of them.
C19_Witness ==
    /\ lmParam = <<"1", "0", "1">>
    /\ lmFound = 500
    /\ lmLimit = 100
    /\ lmCount = 100

----------------------------------------------------------------------------
(* Properties of the cached list under enrichment *)

\* C20: the articles of a stored entry read as they did when the entry was
\* stored, until the entry is replaced or removed.
C20_EntryNeverMutatedInPlace ==
    enEntry # NoEntry => SummariesOf(enEntry.articles, enHeap) = enStored

----------------------------------------------------------------------------
(* Properties of the freshness test *)

\* C21: a lookup that finds an entry whose age is at most the TTL, the age
\* of exactly the TTL included, is a hit.
C21_HitUpToTTLInclusive ==
    [][\A r \in Requests :
         (Leaves(r, "check")
            /\ cached[r] # NoEntry /\ now - cached[r].setAt <= cacheTTL)
         => hist'[r].path = "hit"]_vars

\* The same for the ages below the TTL.
C21_HitBelowTTL ==
    [][\A r \in Requests :
         (Leaves(r, "check")
            /\ cached[r] # NoEntry /\ now - cached[r].setAt < cacheTTL)
         => hist'[r].path = "hit"]_vars

----------------------------------------------------------------------------
(* Properties of the cleanup goroutine at shutdown *)

\* C22: once the shutdown signal has fired, the cleanup loop performs no
\* further scan.
C22_NoScanAfterSignal ==
    [][tcProc = "signalled" => ~cleanup]_vars

----------------------------------------------------------------------------
(* Properties of StartEventSimulation *)

\* The calls that started a loop, whether it still runs or has returned.
Started == {c \in Starters : stLoops[c] # "none"}

\* C23: over all StartEventSimulation calls on the service at most one
\* starts a loop, so at most one loop is ever active; once a call has
\* returned, one call has started or is about to start the loop, and every
\* other call that returned started none.
C23_OneSimulatorLoop ==
    /\ Cardinality(Started \cup {c \in Starters : stPc[c] = "go"}) <= 1
    /\ Cardinality({c \in Starters : stLoops[c] = "looping"}) <= 1
    /\ (\E c \in Starters : stPc[c] = "done") =>
          Cardinality(Started \cup {c \in Starters : stPc[c] = "go"}) = 1

\* All calls have returned, made with different contexts; the one loop
\* has returned after its context was cancelled, and the calls made after
\* that started nothing.
C23_Witness ==
    /\ \A c \in Starters : stPc[c] = "done"
    /\ \E c \in Starters :
          /\ stLoops[c] = "returned"
          /\ \A d \in Starters \ {c} : stLoops[d] = "none"

----------------------------------------------------------------------------
(* Further properties of computeTrending *)

\* C24: on the scored path a computeTrending call returns pairwise distinct
\* articles, each of them in the article store and referenced by an event of
\* the window, and the article at each position is the one whose score was
\* computed for that position.
C24_DistinctScoredArticles ==
    (scCalls > 0 /\ EventArticleIDs(ScorerWindow) # {}) =>
        /\ \A i, j \in 1..Len(scResult) : i # j => scResult[i] # scResult[j]
        /\ Range(scResult) \subseteq ArticleIDs \cap EventArticleIDs(ScorerWindow)
        /\ \A i \in 1..Len(scResult) : scResult[i] = SortByScore(scScores)[i].id

\* The same statement for the builds whose loop variable is per iteration.
C24_PerIterationBuilds == scBuild => C24_DistinctScoredArticles

\* C25: only the events created within the last hour count.  The score a
\* call computes for an article is the sum over the rows of the table that
\* reference it and are newer than one hour, and a call made after rows older
\* than that were inserted or deleted returns what the call before returned.
C25_OnlyWindowEventsCount ==
    /\ \A r \in 1..Len(scScores) :
          LET recent == {i \in 1..Len(scEvents) :
                            /\ scEvents[i].articleID = scScores[r].id
                            /\ scNow - scEvents[i].createdAt < OneHour}
              worth == [i \in 1..Len(scEvents) |->
                          (IF scEvents[i].eventType = "click" THEN 2 ELSE 1)
                            * RecencyFactor(scNow - scEvents[i].createdAt)
                            * GeoFactor(Haversine(scQuery.lat, scQuery.lon,
                                                  scEvents[i].lat, scEvents[i].lon))]
          IN  scScores[r].score = SumOver(worth, recent)
    /\ scPrev # NoCall => scResult = scPrev.result

\* Two calls on the scored path with the same answer, the events table
\* having gained or lost rows older than the window between them.
C25_Witness ==
    /\ scPrev # NoCall
    /\ scPrev.changed
    /\ scScores # <<>>
    /\ scResult = scPrev.result

----------------------------------------------------------------------------
(* Properties of the length of the returned list *)

\* C26: a call of GetTrendingArticles that succeeds returns at most limit
\* articles, when it is served from the cache (the step out of the freshness
\* test) and when it computed and stored its list (the step out of the
\* unlock) alike.
C26_AtMostLimitReturned ==
    [][\A r \in Requests :
         /\ (Leaves(r, "check") /\ pc'[r] = "done")
                => /\ resp'[r].status = 200
                   /\ arg[r].limit >= 1
                   /\ Len(resp'[r].articles) <= arg[r].limit
         /\ Leaves(r, "unlock")
                => /\ resp'[r].status = 200
                   /\ arg[r].limit >= 1
                   /\ Len(resp'[r].articles) <= arg[r].limit]_vars

\* One request computed four articles for limit 2, stored them and was
\* answered with two; another was served one article of that entry.
C26_Witness ==
    \E r1, r2 \in Requests :
        /\ r1 # r2
        /\ pc[r1] = "done" /\ pc[r2] = "done"
        /\ hist[r1].path = "miss" /\ hist[r1].wrote
        /\ hist[r2].path = "hit"
        /\ resp[r1].status = 200 /\ Len(resp[r1].articles) = 2
        /\ resp[r2].status = 200 /\ Len(resp[r2].articles) = 1
        /\ resp[r1].query = resp[r2].query
        /\ \E k \in Keys :
             /\ cache[k] # NoEntry
             /\ Len(cache[k].articles) = 4
             /\ IsPrefixOf(resp[r1].articles, cache[k].articles, 2)
             /\ IsPrefixOf(resp[r2].articles, cache[k].articles, 1)

----------------------------------------------------------------------------
(* Properties of simulateEvents *)

\* C27: a Create that fails does not end the tick: the loop index moves on
\* by one, the loop stays in the tick with the same numEvents and the rows
\* already in the events table stay; no step removes a row; the tick ends
\* only when every one of its numEvents events has been attempted, and it
\* ends in the loop's select, where the next tick is taken.
C27_FailedWriteDoesNotAbortTick ==
    [][/\ tkFailures' > tkFailures
            => /\ tkI' = tkI + 1
               /\ tkPc' = "loop"
               /\ tkNum' = tkNum
               /\ tkSample' = tkSample
               /\ tkRows' = tkRows
       /\ tkRows' >= tkRows
       /\ (tkPc = "loop" /\ tkPc' # "loop")
            => /\ tkI = tkNum
               /\ tkPc' = "select"
               /\ tkRows' = tkRows
               /\ tkTicks' = tkTicks + 1]_vars

\* A tick of five events lost one write and left four rows; the tick after
\* it has written its first event beside them.
C27_Witness ==
    /\ tkHist.failedTicks = 1
    /\ tkTicks = 1
    /\ tkPc = "loop"
    /\ tkI = 1
    /\ tkLast # NoEvent
    /\ tkLast.ok
    /\ tkRows = MinEvents

\* C28: a simulateEvents call whose sample is empty, the articles table
\* being empty or the read having returned nothing, writes no row and
\* attempts no event, and leaves the simulator loop in its select; the loop
\* returns only once its context is cancelled.
C28_EmptySampleIsNoOpTick ==
    [][/\ (tkPc = "find" /\ tkPc' # "find" /\ tkSample' = {})
            => /\ tkPc' = "select"
               /\ tkRows' = tkRows
               /\ tkLast' = NoEvent
               /\ tkI' = tkI
               /\ tkFailures' = tkFailures
               /\ tkTicks' = tkTicks + 1
       /\ (tkPc = "find" /\ tkPc' # "find" /\ tkArticles = 0) => tkSample' = {}
       /\ tkPc' = "returned" => tkCtxDone']_vars

\* After a tick that sampled nothing and wrote nothing, the next tick has
\* sampled the article of a one-row table and written an event on it.
C28_Witness ==
    /\ tkHist.emptyTicks = 1
    /\ tkTicks = 1
    /\ tkArticles = 1
    /\ tkPc = "loop"
    /\ tkI = 1
    /\ tkRows = 1
    /\ tkLast # NoEvent
    /\ tkLast.ok

\* C29: a sample holds at most 100 articles, all of them rows of the
\* articles table; a tick with a non-empty sample has numEvents in 5..20,
\* attempts no more than numEvents events and ends having attempted exactly
\* numEvents; every event it attempts carries the id of an article of its
\* sample.
C29_FiveToTwentyEventsOnSampledArticles ==
    /\ Cardinality(tkSample) <= SampleLimit
    /\ tkSample \subseteq 1..tkArticles
    /\ tkPc = "loop" => tkSample # {}
    /\ tkSample # {}
         => /\ tkNum \in MinEvents..(MinEvents + 15)
            /\ tkI \in 0..tkNum
            /\ tkPc \in {"select", "find", "returned"} => tkI = tkNum
    /\ tkLast # NoEvent
         => /\ tkLast.articleID \in tkSample
            /\ tkI >= 1

\* A tick on a table of 101 rows sampled 100 of them, the first row left
\* out, and has attempted its twentieth and last event, on article 101.
C29_Witness ==
    /\ tkPc = "loop"
    /\ Cardinality(tkSample) = SampleLimit
    /\ 1 \notin tkSample
    /\ tkNum = MinEvents + 15
    /\ tkI = tkNum
    /\ tkLast # NoEvent
    /\ tkLast.articleID = SampleLimit + 1

\* C30: the latitude and the longitude of an event the simulator wrote are
\* each within one degree (1000 milli-degrees) of the coordinate of the
\* article the event references.
C30_EventWithinOneDegreeOfArticle ==
    (tkLast # NoEvent /\ tkLast.ok)
        => /\ Abs(tkLast.lat - SimArticle(tkLast.articleID).lat) <= 1000
           /\ Abs(tkLast.lon - SimArticle(tkLast.articleID).lon) <= 1000

\* An event written a whole degree south of its article and nearly a degree
\* east of it.
C30_Witness ==
    /\ tkLast # NoEvent
    /\ tkLast.ok
    /\ tkLast.lat = SimArticle(tkLast.articleID).lat - 1000
    /\ tkLast.lon = SimArticle(tkLast.articleID).lon + 998

====
